---- MODULE Spec2Model ----
(***************************************************************************)
(* Model of src/backend/routers/announcements.py: the announcement         *)
(* endpoints (public active listing, management listing, create, update,   *)
(* delete), the teacher credential check and the date handling they rely   *)
(* on.                                                                     *)
(*                                                                         *)
(* Texts (Python str) are sequences of one-character strings.  A date text *)
(* is written in a unary ISO notation: n times "d" is the calendar instant *)
(* n, optionally followed by a sign and k times "h" for a UTC offset of k  *)
(* hours:  <<"d","d">> is a naive date, <<"d","d","d","+","h">> is         *)
(* instant 3 at offset +1, i.e. the same instant as <<"d","d","+">>.       *)
(***************************************************************************)
EXTENDS Integers, Sequences, FiniteSets, TLC

\* store    the announcements collection, in the order find({}) yields it
\* inserted how many identifiers the collection has generated
\* now      the clock read by datetime.now(timezone.utc)
\* resp     the latest response sent by any handler
\* pend     update requests whose write is done and whose re-read is not
\* born     for each insert ever made, the id and created_at it was given
VARIABLES store, inserted, now, resp, pend, born

vars == <<store, inserted, now, resp, pend, born>>

(* ------------------------------ bounds -------------------------------- *)

\* datetime.max in units of the model's calendar
MaxTime == 3
\* number of documents the collection may hold / ids the store hands out
MaxDocs == 2
\* records of an arbitrary (possibly corrupted) collection
MaxListed == 2
\* latest instant the clock reaches
MaxNow == 2
\* update requests between their write and their re-read
MaxInflight == 2

(* ------------------------------ values -------------------------------- *)

\* Python's None; no text equals it (texts hold one-character strings only)
None == <<"None">>

Truthy(v) == v # None /\ v # <<>>

Rep(c, n) == [i \in 1..n |-> c]

NaiveText(t) == Rep("d", t)

AwareText(t, sign, k) == Rep("d", t) \o <<sign>> \o Rep("h", k)

\* datetime values: kind "naive" or "aware", wall-clock value and UTC offset
DateTime(kind, local, off) == [kind |-> kind, local |-> local, off |-> off]

NoDateTime == DateTime("none", 0, 0)

datetime_max == DateTime("naive", MaxTime, 0)

\* position of the offset sign in a text, 0 when there is none
SignPos(text) ==
    IF \E k \in 1..Len(text) : text[k] \in {"+", "-"}
    THEN CHOOSE k \in 1..Len(text) :
            /\ text[k] \in {"+", "-"}
            /\ \A j \in 1..(k-1) : text[j] \notin {"+", "-"}
    ELSE 0

\* datetime.fromisoformat raises (TypeError for None, ValueError otherwise)
FromIsoRaises(text) ==
    \/ text = None
    \/ LET k == SignPos(text)
           n == IF k = 0 THEN Len(text) ELSE k - 1
       IN  \/ n < 1
           \/ n > MaxTime
           \/ \E i \in 1..n : text[i] # "d"
           \/ k # 0 /\ \E i \in (k+1)..Len(text) : text[i] # "h"

\* datetime.fromisoformat on a text it accepts
fromisoformat(text) ==
    LET k == SignPos(text)
    IN  IF k = 0
        THEN DateTime("naive", Len(text), 0)
        ELSE DateTime("aware", k - 1,
                      IF text[k] = "+" THEN Len(text) - k ELSE k - Len(text))

\* datetime.isoformat of an aware UTC datetime
isoformat(dt) == AwareText(dt.local, "+", 0)

\* datetime.now(timezone.utc)
utcnow == DateTime("aware", now, 0)

\* the instant a datetime is compared by
Instant(dt) == dt.local - dt.off

\* comparing a naive with an aware datetime raises TypeError
CompareRaises(a, b) == a.kind # b.kind

DtLess(a, b) == Instant(a) < Instant(b)

DtLeq(a, b) == Instant(a) <= Instant(b)

(* ------------------------------ listing ------------------------------- *)

\* list.sort(key=lambda t: t[0]) raises when two keys cannot be compared
SortRaises(tmp) ==
    \E i, j \in 1..Len(tmp) : i < j /\ CompareRaises(tmp[i][1], tmp[j][1])

\* an insertion that puts x in front of the elements equal to it
InsertByKey_unstable(sorted, x) ==
    LET n == Cardinality({i \in 1..Len(sorted) : DtLess(sorted[i][1], x[1])})
    IN  SubSeq(sorted, 1, n) \o <<x>> \o SubSeq(sorted, n + 1, Len(sorted))

\* x goes behind every element that is not greater than it
InsertByKey(sorted, x) ==
    LET n == Cardinality({i \in 1..Len(sorted) : ~DtLess(x[1], sorted[i][1])})
    IN  SubSeq(sorted, 1, n) \o <<x>> \o SubSeq(sorted, n + 1, Len(sorted))

RECURSIVE SortByKey(_)
\* list.sort(key=lambda t: t[0]): stable, ascending
SortByKey(tmp) ==
    IF tmp = <<>> THEN <<>>
    ELSE InsertByKey(SortByKey(SubSeq(tmp, 1, Len(tmp) - 1)), tmp[Len(tmp)])

\* _serialize: the document without "_id", with "id" = str(_id)
serialize(doc) ==
    [id |-> doc.oid, title |-> doc.title, message |-> doc.message,
     start_date |-> doc.start_date, expiration_date |-> doc.expiration_date,
     created_at |-> doc.created_at]

\* exp_dt of the active listing: None when absent, empty or unparseable
ActiveExp(a) ==
    IF Truthy(a.expiration_date) /\ ~FromIsoRaises(a.expiration_date)
    THEN fromisoformat(a.expiration_date) ELSE NoDateTime

\* start_dt of the active listing: None when absent, empty or unparseable
ActiveStart(a) ==
    IF Truthy(a.start_date) /\ ~FromIsoRaises(a.start_date)
    THEN fromisoformat(a.start_date) ELSE NoDateTime

\* the condition of line 67 raises TypeError (short-circuit order kept)
ActiveTestRaises(a) ==
    LET e == ActiveExp(a)
        s == ActiveStart(a)
    IN  /\ e # NoDateTime
        /\ \/ CompareRaises(e, utcnow)
           \/ /\ ~DtLess(e, utcnow)
              /\ s # NoDateTime
              /\ CompareRaises(s, utcnow)

\* the condition of line 67, where it does not raise
ActiveTest(a) ==
    LET e == ActiveExp(a)
        s == ActiveStart(a)
    IN  /\ e # NoDateTime
        /\ ~DtLess(e, utcnow)
        /\ (s = NoDateTime \/ DtLeq(s, utcnow))

RECURSIVE ActiveTmp(_)
\* tmp of get_active_announcements after the loop, in fetch order
ActiveTmp(docs) ==
    IF docs = <<>> THEN <<>>
    ELSE LET a == docs[Len(docs)]
             rest == ActiveTmp(SubSeq(docs, 1, Len(docs) - 1))
         IN  IF ActiveTest(a) THEN Append(rest, <<ActiveExp(a), a>>) ELSE rest

\* sort key of the management listing: datetime.max when parsing raises
AllKey(a) ==
    IF FromIsoRaises(a.expiration_date) THEN datetime_max
    ELSE fromisoformat(a.expiration_date)

AllTmp(docs) == [i \in 1..Len(docs) |-> <<AllKey(docs[i]), docs[i]>>]

Serialized(tmp) == [i \in 1..Len(tmp) |-> serialize(tmp[i][2])]

(* ----------------------------- responses ------------------------------ *)

Response(op, code, detail, body, req) ==
    [n |-> 0, op |-> op, code |-> code, detail |-> detail, body |-> body,
     req |-> req]

\* an exception no handler catches
InternalError(op, req) == Response(op, 500, "Internal Server Error", None, req)

\* the response variable flips its bit n each time a handler answers
Answer(r) == [r EXCEPT !.n = 1 - resp.n]

(* ------------------------- credentials and ids ------------------------ *)

\* the teachers collection (its _id values); no endpoint here writes it
teachers_collection == {<<"k">>}

\* _ensure_teacher testing `username is None` in place of `not username`
ensure_teacher_strict(username) ==
    IF username = None THEN "Authentication required"
    ELSE IF username \notin teachers_collection
         THEN "Invalid teacher credentials"
         ELSE "ok"

\* _ensure_teacher: "ok" when the teacher is found, else the 401 detail
ensure_teacher(username) ==
    IF ~Truthy(username) THEN "Authentication required"
    ELSE IF username \notin teachers_collection
         THEN "Invalid teacher credentials"
         ELSE "ok"

\* hexadecimal digits in an id text (24 in bson, fewer here)
OidLen == 2

HexChars == {"a", "b", "A", "B"}

Lower(c) == IF c = "A" THEN "a" ELSE IF c = "B" THEN "b" ELSE c

\* an ObjectId check that looks at the length only
ObjectIdRaises_len(id) == Len(id) # OidLen

\* ObjectId(id) raises InvalidId
ObjectIdRaises(id) ==
    \/ Len(id) # OidLen
    \/ \E i \in 1..Len(id) : id[i] \notin HexChars

\* ObjectId(id), written as str() prints it
ObjectId(id) == [i \in 1..Len(id) |-> Lower(id[i])]

\* the n-th identifier the collection generates; never handed out twice
NewOid(n) ==
    [i \in 1..OidLen |-> IF (n \div (2 ^ (OidLen - i))) % 2 = 0 THEN "a" ELSE "b"]

\* find_one({"_id": oid}) on the announcements: index of the match, or 0
FindOne(docs, oid) ==
    IF \E i \in 1..Len(docs) : docs[i].oid = oid
    THEN CHOOSE i \in 1..Len(docs) : docs[i].oid = oid
    ELSE 0

(* ------------------------------ handlers ------------------------------ *)

\* GET /announcements
get_active_announcements ==
    /\ resp' = Answer(
          IF \E i \in 1..Len(store) : ActiveTestRaises(store[i])
          THEN InternalError("active", [user |-> None])
          ELSE LET tmp == ActiveTmp(store)
               IN  IF SortRaises(tmp)
                   THEN InternalError("active", [user |-> None])
                   ELSE Response("active", 200, "", Serialized(SortByKey(tmp)),
                                 [user |-> None]))
    /\ UNCHANGED <<store, inserted, now, pend, born>>

\* GET /announcements/all
get_all_announcements(teacher_username) ==
    /\ resp' = Answer(
          LET gate == ensure_teacher(teacher_username)
              req == [user |-> teacher_username]
              tmp == AllTmp(store)
          IN  IF gate # "ok" THEN Response("all", 401, gate, None, req)
              ELSE IF SortRaises(tmp) THEN InternalError("all", req)
              ELSE Response("all", 200, "", Serialized(SortByKey(tmp)), req))
    /\ UNCHANGED <<store, inserted, now, pend, born>>

\* the 400 detail create_announcement raises, "ok" when the dates pass
CreateCheck(req) ==
    IF ~Truthy(req.expiration_date) THEN "expiration_date is required"
    ELSE IF \/ FromIsoRaises(req.expiration_date)
            \/ Truthy(req.start_date) /\ FromIsoRaises(req.start_date)
         THEN "Invalid date format. Use ISO format (YYYY-MM-DD or full ISO)"
         ELSE "ok"

\* the document create_announcement inserts
NewDoc(req) ==
    [oid |-> NewOid(inserted), title |-> req.title, message |-> req.message,
     start_date |-> req.start_date, expiration_date |-> req.expiration_date,
     created_at |-> isoformat(utcnow)]

\* POST /announcements
create_announcement(req) ==
    LET gate == ensure_teacher(req.user)
        check == CreateCheck(req)
    IN  IF gate # "ok"
        THEN /\ resp' = Answer(Response("create", 401, gate, None, req))
             /\ UNCHANGED <<store, inserted, now, pend, born>>
        ELSE IF check # "ok"
        THEN /\ resp' = Answer(Response("create", 400, check, None, req))
             /\ UNCHANGED <<store, inserted, now, pend, born>>
        ELSE /\ inserted < MaxDocs
             /\ store' = Append(store, NewDoc(req))
             /\ inserted' = inserted + 1
             /\ born' = Append(born, [oid |-> NewOid(inserted),
                                      created_at |-> isoformat(utcnow)])
             /\ resp' = Answer(Response("create", 200, "",
                                        serialize(NewDoc(req)), req))
             /\ UNCHANGED <<now, pend>>

UpdateFields == {"title", "message", "expiration_date", "start_date"}

\* an `update` dict that takes every parameter, supplied or not
UpdateDict_all(req) == [f \in UpdateFields |-> req[f]]

\* the dict `update` of update_announcement: the supplied fields only
UpdateDict(req) == [f \in {g \in UpdateFields : req[g] # None} |-> req[f]]

\* the 400 detail update_announcement raises before the write, else "ok"
UpdateCheck(req) ==
    IF ObjectIdRaises(req.id) THEN "Invalid id"
    ELSE IF req.expiration_date # None /\ FromIsoRaises(req.expiration_date)
         THEN "Invalid expiration_date format"
    ELSE IF req.start_date # None /\ FromIsoRaises(req.start_date)
         THEN "Invalid start_date format"
    ELSE IF DOMAIN UpdateDict(req) = {} THEN "No fields to update"
    ELSE "ok"

\* one document after {"$set": update}
SetFields(doc, update) ==
    [k \in DOMAIN doc |-> IF k \in DOMAIN update THEN update[k] ELSE doc[k]]

\* update_one({"_id": oid}, {"$set": update}) on the collection
UpdateOne(docs, oid, update) ==
    [i \in 1..Len(docs) |->
        IF i = FindOne(docs, oid) THEN SetFields(docs[i], update) ELSE docs[i]]

\* lines 157-158: find_one, then _serialize (raises on None)
Reread(docs, req) ==
    LET i == FindOne(docs, ObjectId(req.id))
    IN  IF i = 0 THEN InternalError("update", req)
        ELSE Response("update", 200, "", serialize(docs[i]), req)

\* update_announcement up to and including update_one; a matched write
\* leaves the request in flight, with its re-read still to come
update_write(req) ==
    LET gate == ensure_teacher(req.user)
        check == UpdateCheck(req)
    IN  IF gate # "ok"
        THEN /\ resp' = Answer(Response("update", 401, gate, None, req))
             /\ UNCHANGED <<store, inserted, now, pend, born>>
        ELSE IF check # "ok"
        THEN /\ resp' = Answer(Response("update", 400, check, None, req))
             /\ UNCHANGED <<store, inserted, now, pend, born>>
        ELSE IF FindOne(store, ObjectId(req.id)) = 0
        THEN /\ resp' = Answer(Response("update", 404,
                                        "Announcement not found", None, req))
             /\ UNCHANGED <<store, inserted, now, pend, born>>
        ELSE /\ Len(pend) < MaxInflight
             /\ store' = UpdateOne(store, ObjectId(req.id), UpdateDict(req))
             /\ pend' = Append(pend, req)
             /\ UNCHANGED <<inserted, now, resp, born>>

\* the rest of update_announcement, for the in-flight request number k
update_reread(k) ==
    /\ k \in 1..Len(pend)
    /\ resp' = Answer(Reread(store, pend[k]))
    /\ pend' = SubSeq(pend, 1, k - 1) \o SubSeq(pend, k + 1, Len(pend))
    /\ UNCHANGED <<store, inserted, now, born>>

\* PUT /announcements/{id} when no other request runs in between
update_announcement(req) ==
    LET gate == ensure_teacher(req.user)
        check == UpdateCheck(req)
        written == UpdateOne(store, ObjectId(req.id), UpdateDict(req))
    IN  /\ pend = <<>>
        /\ IF gate = "ok" /\ check = "ok" /\ FindOne(store, ObjectId(req.id)) # 0
           THEN /\ store' = written
                /\ resp' = Answer(Reread(written, req))
                /\ UNCHANGED <<inserted, now, pend, born>>
           ELSE update_write(req)

\* a delete handler that calls delete_one before the credential check
delete_announcement_early(req) ==
    LET gate == ensure_teacher(req.user)
        i == IF ObjectIdRaises(req.id) THEN 0 ELSE FindOne(store, ObjectId(req.id))
        left == IF i = 0 THEN store
                ELSE SubSeq(store, 1, i - 1) \o SubSeq(store, i + 1, Len(store))
    IN  /\ store' = left
        /\ resp' = Answer(
              IF gate # "ok" THEN Response("delete", 401, gate, None, req)
              ELSE IF ObjectIdRaises(req.id)
                   THEN Response("delete", 400, "Invalid id", None, req)
              ELSE IF i = 0
                   THEN Response("delete", 404, "Announcement not found", None, req)
              ELSE Response("delete", 200, "Deleted", None, req))
        /\ UNCHANGED <<inserted, now, pend, born>>

\* DELETE /announcements/{id}
delete_announcement(req) ==
    LET gate == ensure_teacher(req.user)
        i == FindOne(store, ObjectId(req.id))
    IN  IF gate # "ok"
        THEN /\ resp' = Answer(Response("delete", 401, gate, None, req))
             /\ UNCHANGED <<store, inserted, now, pend, born>>
        ELSE IF ObjectIdRaises(req.id)
        THEN /\ resp' = Answer(Response("delete", 400, "Invalid id", None, req))
             /\ UNCHANGED <<store, inserted, now, pend, born>>
        ELSE IF i = 0
        THEN /\ resp' = Answer(Response("delete", 404,
                                        "Announcement not found", None, req))
             /\ UNCHANGED <<store, inserted, now, pend, born>>
        ELSE /\ store' = SubSeq(store, 1, i - 1) \o SubSeq(store, i + 1, Len(store))
             /\ resp' = Answer(Response("delete", 200, "Deleted", None, req))
             /\ UNCHANGED <<inserted, now, pend, born>>

\* time passes between requests
Tick ==
    /\ now < MaxNow
    /\ now' = now + 1
    /\ UNCHANGED <<store, inserted, resp, pend, born>>

(* ------------------------------ requests ------------------------------ *)

Teacher == <<"k">>

\* absent, empty, a known teacher, an unknown name
Usernames == {None, <<>>, Teacher, <<"u">>}

\* an aware date text, used where a request needs a valid one
Valid == AwareText(2, "+", 0)

\* a well-formed id that no document ever gets
GhostId == NewOid(MaxDocs)

\* NewOid(0) spelled in upper case; a non-hexadecimal id; a short id
UpperId == [NewOid(0) EXCEPT ![1] = "A"]

BadId == [NewOid(0) EXCEPT ![1] = "z"]

ShortId == Rep("a", OidLen - 1)

CreateReq(e, s, u) ==
    [title |-> <<"A">>, message |-> <<"m">>, expiration_date |-> e,
     start_date |-> s, user |-> u]

CreateRequests ==
    {CreateReq(Valid, None, Teacher), CreateReq(NaiveText(2), <<>>, Teacher),
     CreateReq(Valid, <<"x">>, Teacher), CreateReq(<<"x">>, None, Teacher),
     CreateReq(<<"x">>, <<>>, Teacher), CreateReq(<<>>, None, Teacher),
     CreateReq(Valid, None, None), CreateReq(<<"x">>, None, <<"u">>)}

UpdateReq(id, t, m, e, s, u) ==
    [id |-> id, title |-> t, message |-> m, expiration_date |-> e,
     start_date |-> s, user |-> u]

\* the field sets sent with an update: one field, all four, none, and a
\* valid field next to an invalid one
Payloads ==
    {<<<<"B">>, None, None, None>>,
     <<None, None, Valid, None>>,
     <<<<"B">>, <<>>, Valid, AwareText(1, "+", 0)>>,
     <<None, None, None, None>>,
     <<<<"B">>, None, <<"x">>, None>>,
     <<None, None, Valid, <<>>>>}

TitleOnly == <<<<"B">>, None, None, None>>

UpdateRequests ==
    {UpdateReq(NewOid(0), p[1], p[2], p[3], p[4], Teacher) : p \in Payloads}
        \cup {UpdateReq(id, TitleOnly[1], None, None, None, Teacher) :
                 id \in {NewOid(1), GhostId, BadId}}
        \cup {UpdateReq(GhostId, <<"B">>, None, <<"x">>, None, Teacher),
              UpdateReq(BadId, None, None, None, None, <<"u">>),
              UpdateReq(NewOid(0), <<"B">>, None, None, None, <<>>)}

DeleteRequests ==
    {[id |-> id, user |-> Teacher] :
        id \in {NewOid(0), NewOid(1), GhostId, UpperId, BadId, ShortId}}
        \cup {[id |-> NewOid(0), user |-> None],
              [id |-> BadId, user |-> <<"u">>]}

(* --------------------------- specifications --------------------------- *)

NoResponse == Response("none", 0, "", None, [user |-> None])

Init ==
    /\ store = <<>>
    /\ inserted = 0
    /\ now = 1
    /\ resp = NoResponse
    /\ pend = <<>>
    /\ born = <<>>

ListActive == get_active_announcements

ListAll == \E u \in Usernames : get_all_announcements(u)

Create == \E r \in CreateRequests : create_announcement(r)

Update == \E r \in UpdateRequests : update_announcement(r)

Delete == \E r \in DeleteRequests : delete_announcement(r)

\* every request is served to its end before the next one starts
Next == ListActive \/ ListAll \/ Create \/ Update \/ Delete \/ Tick

Spec == Init /\ [][Next]_vars

(* A collection of any content, corrupted records included, and the two   *)
(* listings read from it.                                                 *)

ListedExp ==
    {None, <<"x">>, NaiveText(MaxTime), AwareText(1, "+", 0),
     AwareText(2, "+", 0), AwareText(3, "+", 1)}

ListedStart == {None, <<"x">>, NaiveText(1), AwareText(2, "+", 0)}

ListedDoc(i, e, s) ==
    [oid |-> NewOid(i - 1), title |-> <<"A">>, message |-> <<"m">>,
     start_date |-> s, expiration_date |-> e, created_at |-> AwareText(1, "+", 0)]

\* the collections of n documents
Collections(n) ==
    {[i \in 1..n |-> ListedDoc(i, es[i], ss[i])] :
        es \in [1..n -> ListedExp], ss \in [1..n -> ListedStart]}

\* the sequence is the order in which find({}) yields the documents
ListInit ==
    /\ \E n \in 0..MaxListed : store \in Collections(n)
    /\ inserted = Len(store)
    /\ now = 1
    /\ resp = NoResponse
    /\ pend = <<>>
    /\ born = <<>>

ListNext == ListActive \/ ListAll \/ Tick

ListSpec == ListInit /\ [][ListNext]_vars

(* Requests of several callers, interleaved at the store calls: an update *)
(* is two steps, its write and its re-read.                               *)

RaceUpdates ==
    {UpdateReq(id, p[1], p[2], p[3], p[4], Teacher) :
        id \in {NewOid(0), NewOid(1)},
        p \in {<<<<"B">>, None, None, None>>, <<<<"C">>, None, None, None>>,
               <<None, <<>>, Valid, None>>}}
        \cup {UpdateReq(GhostId, <<"B">>, None, None, None, Teacher),
              UpdateReq(NewOid(0), None, None, <<"x">>, None, Teacher)}

RaceCreate == create_announcement(CreateReq(Valid, None, Teacher))

UpdateWrite == \E r \in RaceUpdates : update_write(r)

UpdateReread == \E k \in 1..Len(pend) : update_reread(k)

RaceDelete ==
    \E id \in {NewOid(0), NewOid(1)} :
        delete_announcement([id |-> id, user |-> Teacher])

RaceNext == RaceCreate \/ UpdateWrite \/ UpdateReread \/ RaceDelete

RaceSpec == Init /\ [][RaceNext]_vars

(* ------------------------------ properties ---------------------------- *)

\* a handler answered in this step
Answered == resp'.n # resp.n

Authorized(r) == r.req.user \in teachers_collection

AuthenticationMissing(r) == r.code = 401 /\ r.detail = "Authentication required"

AuthenticationInvalid(r) ==
    r.code = 401 /\ r.detail = "Invalid teacher credentials"

IdentifierMalformed(r) == r.code = 400 /\ r.detail = "Invalid id"

ValidationFailed(r) == r.code = 400 /\ r.detail # "Invalid id"

NotFound(r) == r.code = 404

\* the text is ISO-8601: an instant up to the largest one, with or
\* without a UTC offset
IsIso(text) ==
    \E t \in 1..MaxTime :
        \/ text = NaiveText(t)
        \/ \E k \in 0..Len(text) : text \in {AwareText(t, "+", k), AwareText(t, "-", k)}

\* the instant an ISO text denotes, in UTC
IsoInstant(text) ==
    CHOOSE v \in (0 - Len(text))..Len(text) :
        \E t \in 1..MaxTime :
            \/ text = NaiveText(t) /\ v = t
            \/ \E k \in 0..Len(text) :
                  \/ text = AwareText(t, "+", k) /\ v = t - k
                  \/ text = AwareText(t, "-", k) /\ v = t + k

Ids(body) == {body[i].id : i \in 1..Len(body)}

\* the record is active at instant t
ActiveAt(doc, t) ==
    /\ doc.expiration_date # None
    /\ IsIso(doc.expiration_date)
    /\ IsoInstant(doc.expiration_date) >= t
    /\ \/ doc.start_date = None
       \/ ~IsIso(doc.start_date)
       \/ IsoInstant(doc.start_date) <= t

\* C1: the public listing returns exactly the records whose expiration
\* parses to an instant >= now and whose start is absent, unparseable or
\* parses to an instant <= now, for every date text create accepts.
ActiveListingExact ==
    [][(Answered /\ resp'.op = "active") =>
          /\ resp'.code = 200
          /\ Ids(resp'.body) =
                {store[i].oid : i \in {j \in 1..Len(store) : ActiveAt(store[j], now)}}
          /\ Len(resp'.body) = Cardinality(Ids(resp'.body))]_vars

\* C2: whatever the stored date values are, the public listing and an
\* authorized management listing answer with a sequence, never an error.
ListingsNeverFail ==
    /\ resp.op = "active" => resp.code = 200
    /\ (resp.op = "all" /\ Authorized(resp)) => resp.code = 200

HasValidExp(rec) == rec.expiration_date # None /\ IsIso(rec.expiration_date)

\* C3: the management listing holds every stored record exactly once, and
\* every record without a valid expiration after every record with one.
InvalidSortLast ==
    (resp.op = "all" /\ Authorized(resp)) =>
        /\ resp.code = 200
        /\ Len(resp.body) = Len(store)
        /\ Ids(resp.body) = {store[i].oid : i \in 1..Len(store)}
        /\ \A i, j \in 1..Len(resp.body) :
              (HasValidExp(resp.body[i]) /\ ~HasValidExp(resp.body[j])) => i < j

\* place of the record with this id in the fetch order
FetchPos(id) == CHOOSE i \in 1..Len(store) : store[i].oid = id

\* C4: what the public listing returns is sorted non-decreasing by parsed
\* expiration, and records of equal expiration keep their fetch order.
ActiveSortedStable ==
    (resp.op = "active" /\ resp.code = 200) =>
        \A i, j \in 1..Len(resp.body) :
            i < j =>
              LET ei == IsoInstant(resp.body[i].expiration_date)
                  ej == IsoInstant(resp.body[j].expiration_date)
              IN  /\ ei <= ej
                  /\ ei = ej => FetchPos(resp.body[i].id) < FetchPos(resp.body[j].id)

\* C4 witness: two records expiring at the same instant, written with
\* different texts, are both listed
ActiveTieListed ==
    /\ resp.op = "active" /\ resp.code = 200 /\ Len(resp.body) >= 2
    /\ \E i, j \in 1..Len(resp.body) :
          /\ i < j
          /\ resp.body[i].expiration_date # resp.body[j].expiration_date
          /\ IsoInstant(resp.body[i].expiration_date)
                = IsoInstant(resp.body[j].expiration_date)

ErrorListed(r) == r.code \in {400, 401, 404}

\* C5: a create, update or delete that ends in an authentication,
\* validation, malformed-id or not-found error leaves the collection as it
\* was; nothing is inserted, written or removed.
ErrorsLeaveStore ==
    [][(Answered /\ resp'.op \in {"create", "update", "delete"} /\ ErrorListed(resp'))
          => (store' = store /\ inserted' = inserted)]_vars

\* C5 witness: an update of an existing record that supplied a valid title
\* next to an invalid expiration_date was rejected
MixedUpdateRejected ==
    /\ resp.op = "update" /\ resp.code = 400
    /\ resp.req.title # None /\ resp.req.expiration_date = <<"x">>
    /\ \E i \in 1..Len(store) :
          store[i].oid = resp.req.id /\ store[i].title # resp.req.title

\* C6: an authorized create is accepted only with an expiration_date that
\* parses and a start_date that, whenever supplied, parses too, and is
\* otherwise rejected as ValidationFailed; so every stored start_date is
\* absent or parseable.
CreateValidatesDates ==
    /\ (resp.op = "create" /\ Authorized(resp)) =>
          IF /\ IsIso(resp.req.expiration_date)
             /\ (resp.req.start_date = None \/ IsIso(resp.req.start_date))
          THEN resp.code = 200
          ELSE ValidationFailed(resp)
    /\ \A i \in 1..Len(store) :
          store[i].start_date = None \/ IsIso(store[i].start_date)

ManagementOps == {"all", "create", "update", "delete"}

\* C7: a management request without identifier is denied as
\* AuthenticationMissing, one with any identifier that is not a teacher's
\* (the empty text included) as AuthenticationInvalid, and one with a
\* teacher's identifier passes the gate; the public listing needs none.
GateOutcome ==
    /\ resp.op \in ManagementOps =>
          /\ resp.req.user = None => AuthenticationMissing(resp)
          /\ (resp.req.user # None /\ ~Authorized(resp)) => AuthenticationInvalid(resp)
          /\ Authorized(resp) => resp.code # 401
    /\ resp.op = "active" => resp.code # 401

Denied(r) == r.req.user = None \/ r.req.user = <<>>

\* C7 as amended: a management request with no identifier or with the
\* empty text is denied as AuthenticationMissing, one with any other
\* identifier that is not a teacher's as AuthenticationInvalid, both
\* without a change to the collection, whatever the rest of the request;
\* one with a teacher's identifier passes the gate; the public listing
\* needs none.
GateOutcomeAmended ==
    /\ [](resp.op = "active" => resp.code # 401)
    /\ [][(Answered /\ resp'.op \in ManagementOps) =>
            /\ Denied(resp') => (AuthenticationMissing(resp') /\ store' = store)
            /\ (~Denied(resp') /\ ~Authorized(resp')) =>
                  (AuthenticationInvalid(resp') /\ store' = store)
            /\ Authorized(resp') => resp'.code # 401]_vars

\* C7 witness: an update of an existing record sent with the empty text as
\* identifier was denied as AuthenticationMissing
EmptyNameDenied ==
    /\ resp.op = "update" /\ resp.req.user = <<>>
    /\ AuthenticationMissing(resp)
    /\ \E i \in 1..Len(store) : store[i].oid = resp.req.id

\* the record as the request asks it to be: supplied fields take the
\* supplied values, the rest stays
Merged(doc, req) ==
    [oid |-> doc.oid,
     title |-> IF req.title # None THEN req.title ELSE doc.title,
     message |-> IF req.message # None THEN req.message ELSE doc.message,
     start_date |-> IF req.start_date # None THEN req.start_date ELSE doc.start_date,
     expiration_date |-> IF req.expiration_date # None THEN req.expiration_date
                         ELSE doc.expiration_date,
     created_at |-> doc.created_at]

\* a well-formed id names this stored id (hexadecimal, any letter case)
SameId(id, oid) ==
    /\ Len(id) = Len(oid)
    /\ \A i \in 1..Len(id) :
          \/ id[i] = oid[i]
          \/ <<id[i], oid[i]>> \in {<<"A", "a">>, <<"B", "b">>}

\* C8: a successful update sets exactly the supplied fields of its record
\* and changes nothing else, in that record or any other; every existing
\* record keeps the id and created_at it was given when created.
UpdateFrame ==
    /\ [](\A i \in 1..Len(store) :
            \E k \in 1..Len(born) :
                /\ born[k].oid = store[i].oid
                /\ born[k].created_at = store[i].created_at
                /\ \A m \in 1..Len(born) : born[m].oid = born[k].oid => m = k)
    /\ [][(Answered /\ resp'.op = "update" /\ resp'.code = 200) =>
            /\ Len(store') = Len(store)
            /\ \A i \in 1..Len(store) :
                  store'[i] = IF SameId(resp'.req.id, store[i].oid)
                              THEN Merged(store[i], resp'.req)
                              ELSE store[i]
            /\ SameId(resp'.req.id, resp'.body.id)]_vars

\* C8 witness: an update that supplied only some fields succeeded on one of
\* two records created at different instants
PartialUpdateDone ==
    /\ resp.op = "update" /\ resp.code = 200
    /\ resp.req.title = None /\ resp.req.expiration_date # None
    /\ Len(store) = 2
    /\ store[1].created_at # store[2].created_at
    /\ \E i \in 1..2 : store[i].oid = resp.body.id /\ store[i].title = <<"B">>

WellFormedId(id) ==
    Len(id) = OidLen /\ \A i \in 1..Len(id) : id[i] \in {"a", "b", "A", "B"}

Stored(id) == \E i \in 1..Len(store) : SameId(id, store[i].oid)

PayloadValid(req) ==
    /\ req.expiration_date = None \/ IsIso(req.expiration_date)
    /\ req.start_date = None \/ IsIso(req.start_date)
    /\ \E f \in UpdateFields : req[f] # None

\* what is left of the collection without the record of this id
Without(docs, id) ==
    LET keep == {i \in 1..Len(docs) : ~SameId(id, docs[i].oid)}
        nth(k) == CHOOSE i \in keep : Cardinality({j \in keep : j < i}) = k - 1
    IN  [k \in 1..Cardinality(keep) |-> docs[nth(k)]]

\* C9: for an authorized delete or update a malformed id is reported as
\* IdentifierMalformed without touching the collection, a well-formed id
\* of no stored record as NotFound (an update: when its payload is valid
\* and not empty), and a delete of a stored id removes exactly that record.
IdOutcomes ==
    [][(Answered /\ resp'.op \in {"delete", "update"} /\ Authorized(resp')) =>
          LET id == resp'.req.id
          IN  /\ ~WellFormedId(id) => (IdentifierMalformed(resp') /\ store' = store)
              /\ (WellFormedId(id) /\ ~Stored(id)) =>
                    /\ ~IdentifierMalformed(resp')
                    /\ store' = store
                    /\ (resp'.op = "delete" \/ PayloadValid(resp'.req)) => NotFound(resp')
              /\ (WellFormedId(id) /\ Stored(id) /\ resp'.op = "delete") =>
                    /\ resp'.code = 200
                    /\ store' = Without(store, id)
                    /\ Len(store') = Len(store) - 1]_vars

\* C9 witness: the id of a record that was created and then deleted is
\* deleted again and reported as not found
DeletedTwice ==
    /\ resp.op = "delete" /\ NotFound(resp)
    /\ \E k \in 1..Len(born) : SameId(resp.req.id, born[k].oid)
    /\ ~Stored(resp.req.id)

\* C10: an update whose write matched a record completes with a record
\* that carries, for each supplied field, the value this update supplied,
\* also when other callers' requests run between its write and its re-read.
UpdateReturnsOwnWrite ==
    (resp.op = "update" /\ ~ErrorListed(resp)) =>
        /\ resp.code = 200
        /\ \A f \in UpdateFields : resp.req[f] # None => resp.body[f] = resp.req[f]

====
